---- MODULE Spec2Model ----
(***************************************************************************)
(* PhantomAPI gateway (src/gateway.py): the reactive circuit breaker, the  *)
(* predictive controller and the per-request proxy pipeline, modelled as   *)
(* the asyncio program they are: every handler runs atomically from one    *)
(* await to the next, and any number of requests are in flight at once.    *)
(*                                                                         *)
(* Numbers that are fractions in the source are percentages here           *)
(* (0.5 -> 50, 0.45 -> 45, 0.7 -> 70).                                     *)
(***************************************************************************)
EXTENDS Integers, Sequences, FiniteSets, TLC

\* ------------------------------------------------------------------ bounds
\* Number of requests the gateway handles at the same time.
NReq == 2
\* Number of requests that arrive in one run.
MaxArrivals == 3
\* time.time() when the process starts, seconds.
StartTime == 30
\* Seconds by which one step of the clock advances it.
TickStep == 30
\* Number of clock steps of one run.
MaxTicks == 1
\* The source's CIRCUIT_MIN_REQUESTS is 10 and CIRCUIT_WINDOW_SIZE is 20;
\* the model keeps their roles (the window is larger than the minimum) at a
\* size TLC can enumerate.
CIRCUIT_MIN_REQUESTS == 2
CIRCUIT_WINDOW_SIZE == 3

\* Number of _log_once calls of the feature logger in one run.
MaxLogCalls == 4
\* Seconds by which a sleep of the feature logger may overrun log_interval.
LateBy == 25

\* Largest value of a Prometheus counter the feature extractor samples.
MaxCounter == 2
\* FeatureExtractor's window_size is 30 in the source.
window_size == 2

\* --------------------------------------------------- program constants
MAX_RETRIES == 2
DEGRADED_MAX_RETRIES == 0
CIRCUIT_FAILURE_THRESHOLD == 50
CIRCUIT_OPEN_DURATION_SECONDS == 30
PREDICTIVE_COOLDOWN == 30
SOFT_RISK_THRESHOLD == 45
HARD_RISK_THRESHOLD == 70
IDEMPOTENT_METHODS == {"GET", "HEAD"}

\* FeatureLogger defaults (seconds, percent)
log_interval == 5
label_window == 30
failure_threshold == 50

\* AdaptiveThresholdController defaults
base_threshold == 70
min_threshold == 40
max_threshold == 90

\* Python's None for circuit_opened_at (timestamps are >= 0).
None == -1

Req == 1..NReq
MaxTime == StartTime + MaxTicks * TickStep
\* Methods the proxy route accepts; HEAD behaves as GET, PUT/DELETE as POST.
Methods == {"GET", "POST"}
\* Status codes an upstream response carries (one non-5xx, one 5xx).
UpstreamStatuses == {200, 500}
\* Status codes api_requests_total is labelled with, next to the method.
CountedStatuses == {200, 500, 503}

VARIABLES
  circuit_state,              \* "CLOSED" | "OPEN" | "HALF_OPEN"
  circuit_opened_at,          \* timestamp or None
  half_open_probe_in_flight,  \* BOOLEAN
  failure_window,             \* deque(maxlen=CIRCUIT_WINDOW_SIZE) of BOOLEAN
  last_predictive_action,     \* timestamp
  CIRCUIT_STATE,              \* gauge
  inc,                        \* the counters: inc() calls of the last step
  traffic,                    \* api_requests_total has been incremented
  response,                   \* status the last step returned to a client
  now,                        \* time.time()
  req,                        \* the proxy coroutines, one per request slot
  arrivals,                   \* number of requests that have arrived
  half_open_admitted,         \* history: number of requests that passed the
                              \* HALF_OPEN gate in the current HALF_OPEN period
  previous_predictive_action, \* history: last_predictive_action before the
                              \* controller last opened the breaker
  _buffer,                    \* FeatureLogger._buffer: (ts, features) pairs
  sink,                       \* rows of the CSV file, with their write time
  logger_pc,                  \* FeatureLogger.start: "log" | "sleep"
  log_calls,                  \* number of _log_once calls so far
  _last,                      \* FeatureExtractor._last: name -> counter value
  total,                      \* FeatureExtractor.total, a deque of deltas
  failures,                   \* FeatureExtractor.failures, a deque of deltas
  previous_last,              \* history: _last before the last snapshot
  threshold_features,         \* argument of the last compute_threshold call
  adaptive_threshold          \* what the call returned (None before it)

breaker == <<circuit_state, circuit_opened_at, half_open_probe_in_flight,
             failure_window, CIRCUIT_STATE>>
history == <<arrivals, half_open_admitted>>
controller == <<last_predictive_action, previous_predictive_action>>
gateway == <<breaker, inc, traffic, response, controller, req, history>>
logger == <<_buffer, sink, logger_pc, log_calls>>
extractor == <<_last, total, failures, previous_last>>
adaptive == <<threshold_features, adaptive_threshold>>
telemetry == <<logger, extractor, adaptive>>
vars == <<gateway, now, telemetry>>

\* ------------------------------------------------------ features and risk
\* A feature vector is a dict; the empty dict is "insufficient data".
EmptyFeatures == [k \in {} |-> 0]
Get(features, key, default) ==
  IF key \in DOMAIN features THEN features[key] ELSE default

\* Feature vectors compute_features may return (rates in percent).
NonEmptyFeatures ==
  { [retry_rate |-> 0, latency_slope |-> 0, circuit_flap_rate |-> 0,
     failure_ratio |-> 0],
    [retry_rate |-> 50, latency_slope |-> 1, circuit_flap_rate |-> 3,
     failure_ratio |-> 50] }

\* What the model's predict_proba may give: a probability in percent, or an
\* exception.
ModelRaises == -1
ModelOutputs == {ModelRaises, 45, 70}

\* Clamp without the clamping
Clamp_none(lo, hi, x) == x

\* max(lo, min(hi, round(x, 2))): every value compute_threshold reaches is
\* 0.7 plus or minus multiples of 0.05, which round(., 2) leaves alone.
Clamp(lo, hi, x) == IF x < lo THEN lo ELSE IF x > hi THEN hi ELSE x

compute_threshold(features) ==
  IF DOMAIN features = {} THEN base_threshold
  ELSE LET t1 == base_threshold
                 - (IF Get(features, "retry_rate", 0) > 30 THEN 10 ELSE 0)
           t2 == t1 - (IF Get(features, "latency_slope", 0) > 0 THEN 10 ELSE 0)
           t3 == t2 - (IF Get(features, "circuit_flap_rate", 0) > 0
                       THEN 15 ELSE 0)
           t4 == t3 + (IF Get(features, "failure_ratio", 0) = 0
                          /\ Get(features, "latency_slope", 0) <= 0
                       THEN 10 ELSE 0)
       IN  Clamp(min_threshold, max_threshold, t4)

predict_risk(features, out) ==
  IF DOMAIN features = {} THEN 0
  ELSE IF out = ModelRaises THEN 0 ELSE out

\* request_mode_from_risk with `risk > HARD_RISK_THRESHOLD`
request_mode_from_risk_strict(risk) ==
  IF risk > HARD_RISK_THRESHOLD THEN "HARD_FAIL"
  ELSE IF risk >= SOFT_RISK_THRESHOLD THEN "DEGRADED"
  ELSE "NORMAL"

request_mode_from_risk(risk) ==
  IF risk >= HARD_RISK_THRESHOLD THEN "HARD_FAIL"
  ELSE IF risk >= SOFT_RISK_THRESHOLD THEN "DEGRADED"
  ELSE "NORMAL"

Sum(f) == LET S[D \in SUBSET DOMAIN f] ==
                IF D = {} THEN 0
                ELSE LET x == CHOOSE y \in D : TRUE IN f[x] + S[D \ {x}]
          IN  S[DOMAIN f]

\* compute_features returns {} while the total-request window sums to zero;
\* the window holds deltas of api_requests_total, so it is all zero as long
\* as nothing has been counted.
CurrentFeatures ==
  {EmptyFeatures} \cup (IF traffic THEN NonEmptyFeatures ELSE {})

\* ------------------------------------------------------------ the metrics
\* The gateway only ever increments its counters (the feature extractor reads
\* them), so the model keeps of each counter the number of inc() calls made
\* by the last step, by label where the claims tell labels apart, and of the
\* histogram circuit_failure_ratio the number of observe() calls: the source
\* defines that histogram and never calls observe() on it.
NoInc ==
  [CIRCUIT_OPEN_TOTAL |-> 0,
   CIRCUIT_SHORT_CIRCUITED |-> 0,
   CIRCUIT_REQUESTS_TRACKED |-> 0,
   CIRCUIT_FAILURE_RATIO |-> 0,
   REQUEST_COUNT |-> [l \in Methods \X CountedStatuses |-> 0],
   UPSTREAM_RETRIES |-> [m \in Methods |-> 0]]

\* ------------------------------------------------------------ the breaker
\* The module-level variables a handler reads and writes, as one value; its
\* counters start at zero and count the handler's inc() calls.
Globals ==
  [circuit_state |-> circuit_state,
   circuit_opened_at |-> circuit_opened_at,
   half_open_probe_in_flight |-> half_open_probe_in_flight,
   failure_window |-> failure_window,
   CIRCUIT_STATE |-> CIRCUIT_STATE,
   CIRCUIT_OPEN_TOTAL |-> 0,
   CIRCUIT_SHORT_CIRCUITED |-> 0,
   CIRCUIT_REQUESTS_TRACKED |-> 0,
   CIRCUIT_FAILURE_RATIO |-> 0,
   REQUEST_COUNT |-> NoInc.REQUEST_COUNT,
   UPSTREAM_RETRIES |-> NoInc.UPSTREAM_RETRIES]

SetGlobals(g) ==
  /\ circuit_state' = g.circuit_state
  /\ circuit_opened_at' = g.circuit_opened_at
  /\ half_open_probe_in_flight' = g.half_open_probe_in_flight
  /\ failure_window' = g.failure_window
  /\ CIRCUIT_STATE' = g.CIRCUIT_STATE
  /\ inc' = [CIRCUIT_OPEN_TOTAL |-> g.CIRCUIT_OPEN_TOTAL,
             CIRCUIT_SHORT_CIRCUITED |-> g.CIRCUIT_SHORT_CIRCUITED,
             CIRCUIT_REQUESTS_TRACKED |-> g.CIRCUIT_REQUESTS_TRACKED,
             CIRCUIT_FAILURE_RATIO |-> g.CIRCUIT_FAILURE_RATIO,
             REQUEST_COUNT |-> g.REQUEST_COUNT,
             UPSTREAM_RETRIES |-> g.UPSTREAM_RETRIES]
  /\ traffic' = (traffic \/ Sum(g.REQUEST_COUNT) > 0)

\* sum(failure_window)
Failures(w) == Cardinality({i \in 1..Len(w) : w[i]})

\* deque.append with maxlen: the oldest entry is evicted on overflow
deque_append(w, x) ==
  IF Len(w) >= CIRCUIT_WINDOW_SIZE THEN Append(Tail(w), x) ELSE Append(w, x)

\* ratio >= CIRCUIT_FAILURE_THRESHOLD, ratio = sum(w) / len(w)
RatioAtThreshold(w) == Failures(w) * 100 >= CIRCUIT_FAILURE_THRESHOLD * Len(w)

\* maybe_open_circuit with `ratio > CIRCUIT_FAILURE_THRESHOLD`
maybe_open_circuit_strict(g, t) ==
  IF Len(g.failure_window) >= CIRCUIT_MIN_REQUESTS
  THEN IF Failures(g.failure_window) * 100
            > CIRCUIT_FAILURE_THRESHOLD * Len(g.failure_window)
          /\ g.circuit_state = "CLOSED"
       THEN [g EXCEPT !.circuit_state = "OPEN",
                      !.circuit_opened_at = t,
                      !.half_open_probe_in_flight = FALSE,
                      !.CIRCUIT_STATE = 1,
                      !.CIRCUIT_OPEN_TOTAL = @ + 1]
       ELSE g
  ELSE g

\* maybe_open_circuit without `CIRCUIT_OPEN_TOTAL.inc()`
maybe_open_circuit_uncounted(g, t) ==
  IF Len(g.failure_window) >= CIRCUIT_MIN_REQUESTS
  THEN IF RatioAtThreshold(g.failure_window) /\ g.circuit_state = "CLOSED"
       THEN [g EXCEPT !.circuit_state = "OPEN",
                      !.circuit_opened_at = t,
                      !.half_open_probe_in_flight = FALSE,
                      !.CIRCUIT_STATE = 1]
       ELSE g
  ELSE g

\* maybe_open_circuit without `circuit_opened_at = time.time()`
maybe_open_circuit_nostamp(g, t) ==
  IF Len(g.failure_window) >= CIRCUIT_MIN_REQUESTS
  THEN IF RatioAtThreshold(g.failure_window) /\ g.circuit_state = "CLOSED"
       THEN [g EXCEPT !.circuit_state = "OPEN",
                      !.half_open_probe_in_flight = FALSE,
                      !.CIRCUIT_STATE = 1,
                      !.CIRCUIT_OPEN_TOTAL = @ + 1]
       ELSE g
  ELSE g

maybe_open_circuit(g, t) ==
  IF Len(g.failure_window) >= CIRCUIT_MIN_REQUESTS
  THEN IF RatioAtThreshold(g.failure_window) /\ g.circuit_state = "CLOSED"
       THEN [g EXCEPT !.circuit_state = "OPEN",
                      !.circuit_opened_at = t,
                      !.half_open_probe_in_flight = FALSE,
                      !.CIRCUIT_STATE = 1,
                      !.CIRCUIT_OPEN_TOTAL = @ + 1]
       ELSE g
  ELSE g

\* circuit_enforcement whose HALF_OPEN gate forgets
\* `half_open_probe_in_flight = True`
circuit_enforcement_noflag(g, t, method) ==
  LET opened == g.circuit_state = "OPEN"
      due    == opened
                /\ t - g.circuit_opened_at >= CIRCUIT_OPEN_DURATION_SECONDS
      g1     == IF due THEN [g EXCEPT !.circuit_state = "HALF_OPEN",
                                      !.CIRCUIT_STATE = 2]
                ELSE g
  IN  IF opened /\ ~due
      THEN [g |-> [g EXCEPT !.CIRCUIT_SHORT_CIRCUITED = @ + 1,
                            !.REQUEST_COUNT[method, 503] = @ + 1],
            status |-> 503, gate |-> "OPEN"]
      ELSE IF g1.circuit_state = "HALF_OPEN"
      THEN IF g1.half_open_probe_in_flight
           THEN [g |-> [g1 EXCEPT !.CIRCUIT_SHORT_CIRCUITED = @ + 1],
                 status |-> 503, gate |-> "HALF_OPEN"]
           ELSE [g |-> g1, status |-> 0, gate |-> "HALF_OPEN"]
      ELSE [g |-> g1, status |-> 0, gate |-> "CLOSED"]

\* circuit_enforcement whose OPEN gate forgets
\* `REQUEST_COUNT.labels(..., 503).inc()`
circuit_enforcement_uncounted(g, t, method) ==
  LET opened == g.circuit_state = "OPEN"
      due    == opened
                /\ t - g.circuit_opened_at >= CIRCUIT_OPEN_DURATION_SECONDS
      g1     == IF due THEN [g EXCEPT !.circuit_state = "HALF_OPEN",
                                      !.CIRCUIT_STATE = 2]
                ELSE g
  IN  IF opened /\ ~due
      THEN [g |-> [g EXCEPT !.CIRCUIT_SHORT_CIRCUITED = @ + 1],
            status |-> 503, gate |-> "OPEN"]
      ELSE IF g1.circuit_state = "HALF_OPEN"
      THEN IF g1.half_open_probe_in_flight
           THEN [g |-> [g1 EXCEPT !.CIRCUIT_SHORT_CIRCUITED = @ + 1],
                 status |-> 503, gate |-> "HALF_OPEN"]
           ELSE [g |-> [g1 EXCEPT !.half_open_probe_in_flight = TRUE],
                 status |-> 0, gate |-> "HALF_OPEN"]
      ELSE [g |-> g1, status |-> 0, gate |-> "CLOSED"]

\* proxy, "Circuit enforcement": the OPEN gate and the HALF_OPEN gate.
\* status 0: the request goes on; 503: rejected; 500: the handler raised
\* (now - None).
circuit_enforcement(g, t, method) ==
  LET opened == g.circuit_state = "OPEN"
      crash  == opened /\ g.circuit_opened_at = None
      due    == opened /\ ~crash
                /\ t - g.circuit_opened_at >= CIRCUIT_OPEN_DURATION_SECONDS
      g1     == IF due THEN [g EXCEPT !.circuit_state = "HALF_OPEN",
                                      !.CIRCUIT_STATE = 2]
                ELSE g
  IN  IF crash THEN [g |-> g, status |-> 500, gate |-> "OPEN"]
      ELSE IF opened /\ ~due
      THEN [g |-> [g EXCEPT !.CIRCUIT_SHORT_CIRCUITED = @ + 1,
                            !.REQUEST_COUNT[method, 503] = @ + 1],
            status |-> 503, gate |-> "OPEN"]
      ELSE IF g1.circuit_state = "HALF_OPEN"
      THEN IF g1.half_open_probe_in_flight
           THEN [g |-> [g1 EXCEPT !.CIRCUIT_SHORT_CIRCUITED = @ + 1],
                 status |-> 503, gate |-> "HALF_OPEN"]
           ELSE [g |-> [g1 EXCEPT !.half_open_probe_in_flight = TRUE],
                 status |-> 0, gate |-> "HALF_OPEN"]
      ELSE [g |-> g1, status |-> 0, gate |-> "CLOSED"]

\* close_on_success without `half_open_probe_in_flight = False`
close_on_success_keepflag(g, is_failure) ==
  IF g.circuit_state = "HALF_OPEN" /\ ~is_failure
  THEN [g EXCEPT !.circuit_state = "CLOSED",
                 !.circuit_opened_at = None,
                 !.failure_window = <<>>,
                 !.CIRCUIT_STATE = 0]
  ELSE g

\* close_on_success without `failure_window.clear()`
close_on_success_keepwindow(g, is_failure) ==
  IF g.circuit_state = "HALF_OPEN" /\ ~is_failure
  THEN [g EXCEPT !.circuit_state = "CLOSED",
                 !.half_open_probe_in_flight = FALSE,
                 !.circuit_opened_at = None,
                 !.CIRCUIT_STATE = 0]
  ELSE g

\* proxy, on a response: a non-failure seen while HALF_OPEN closes the breaker
close_on_success(g, is_failure) ==
  IF g.circuit_state = "HALF_OPEN" /\ ~is_failure
  THEN [g EXCEPT !.circuit_state = "CLOSED",
                 !.half_open_probe_in_flight = FALSE,
                 !.circuit_opened_at = None,
                 !.failure_window = <<>>,
                 !.CIRCUIT_STATE = 0]
  ELSE g

\* failure_window.append(x); CIRCUIT_REQUESTS_TRACKED.inc()
track(g, x) ==
  [g EXCEPT !.failure_window = deque_append(@, x),
            !.CIRCUIT_REQUESTS_TRACKED = @ + 1]

\* may_retry without `method in IDEMPOTENT_METHODS`
may_retry_anymethod(q) == q.attempts < q.max_retries

\* method in IDEMPOTENT_METHODS and attempts < max_retries
may_retry(q) == q.method \in IDEMPOTENT_METHODS /\ q.attempts < q.max_retries

\* -------------------------------------------------------------- requests
\* A proxy coroutine: its position, its locals (method, max_retries,
\* attempts), and what it has done so far: sent counts the client.request
\* calls it issued, appended the entries it appended to failure_window, probe
\* tells that it passed the HALF_OPEN gate.  A coroutine that returns frees
\* its slot and leaves its status in response.
\*
\* proxy suspends at `await request.body()`, at `await client.request(...)`
\* and at the back-off `await asyncio.sleep(...)`.  Between the first or the
\* third and the next client.request it touches no shared variable, so the
\* model lets the request be issued in the step that decides to issue it: a
\* coroutine in flight is at "upstream", waiting for the outcome of its
\* attempt number sent.
IdleReq ==
  [pc |-> "idle", method |-> "GET", max_retries |-> 0, attempts |-> 0,
   sent |-> 0, probe |-> FALSE, appended |-> 0]

Free(r) == req[r].pc = "idle"
InFlight(r) == ~Free(r)

\* The history of the current HALF_OPEN period after a step that takes the
\* breaker from state old to state new and admits `admitted` requests
\* through the HALF_OPEN gate.
Admitted(old, new, admitted) ==
  IF new # "HALF_OPEN" THEN 0
  ELSE (IF old = "HALF_OPEN" THEN half_open_admitted ELSE 0) + admitted

TypeOK ==
  /\ circuit_state \in {"CLOSED", "OPEN", "HALF_OPEN"}
  /\ circuit_opened_at \in {None} \cup (StartTime..MaxTime)
  /\ half_open_probe_in_flight \in BOOLEAN
  /\ Len(failure_window) <= CIRCUIT_WINDOW_SIZE
  /\ CIRCUIT_STATE \in 0..2
  /\ traffic \in BOOLEAN
  /\ response \in {0, 404, 429, 503, 504} \cup UpstreamStatuses
  /\ now \in StartTime..MaxTime
  /\ arrivals \in 0..MaxArrivals
  /\ \A r \in Req : req[r].attempts <= req[r].max_retries

Init ==
  /\ circuit_state = "CLOSED"
  /\ circuit_opened_at = None
  /\ half_open_probe_in_flight = FALSE
  /\ failure_window = <<>>
  /\ last_predictive_action = 0
  /\ previous_predictive_action = 0
  /\ CIRCUIT_STATE = 0
  /\ inc = NoInc
  /\ traffic = FALSE
  /\ response = 0
  /\ now = StartTime
  /\ req = [r \in Req |-> IdleReq]
  /\ arrivals = 0
  /\ half_open_admitted = 0
  /\ _buffer = <<>>
  /\ sink = <<>>
  /\ logger_pc = "log"
  /\ log_calls = 0
  /\ _last = [n \in {} |-> 0]
  /\ total = <<>>
  /\ failures = <<>>
  /\ previous_last = [n \in {} |-> 0]
  /\ threshold_features = EmptyFeatures
  /\ adaptive_threshold = None

\* The clock advances.
Tick ==
  /\ now + TickStep <= MaxTime
  /\ now' = now + TickStep
  /\ inc' = NoInc
  /\ response' = 0
  /\ UNCHANGED <<telemetry, breaker, traffic, controller, req, history>>

\* A new request takes the lowest free slot.
Accepts(r) ==
  /\ arrivals < MaxArrivals
  /\ Free(r)
  /\ \A q \in Req : q < r => InFlight(q)

\* proxy for a reserved path ("health", "metrics", "debug"): 404.
PathFilter(r) ==
  /\ Accepts(r)
  /\ arrivals' = arrivals + 1
  /\ inc' = NoInc
  /\ response' = 404
  /\ UNCHANGED <<telemetry, breaker, traffic, controller, now, req,
                 half_open_admitted>>

\* proxy for any other path, up to the first client.request: circuit
\* enforcement, risk mode, and the first attempt is issued.
Arrive(r, method, features, out) ==
  /\ Accepts(r)
  /\ arrivals' = arrivals + 1
  /\ LET e    == circuit_enforcement(Globals, now, method)
         risk == predict_risk(features, out)
         mode == request_mode_from_risk(risk)
         hard == e.status = 0 /\ mode = "HARD_FAIL"
         g2   == IF hard
                 THEN [e.g EXCEPT !.CIRCUIT_SHORT_CIRCUITED = @ + 1]
                 ELSE e.g
         isProbe == e.status = 0 /\ e.gate = "HALF_OPEN"
     IN  /\ SetGlobals(g2)
         /\ response' = IF e.status # 0 THEN e.status
                        ELSE IF hard THEN 429 ELSE 0
         /\ req' = IF e.status # 0 \/ hard THEN req
                   ELSE [req EXCEPT ![r] =
                          [IdleReq EXCEPT
                             !.pc = "upstream",
                             !.method = method,
                             !.probe = isProbe,
                             !.sent = 1,
                             !.max_retries =
                                IF mode = "DEGRADED"
                                THEN DEGRADED_MAX_RETRIES
                                ELSE MAX_RETRIES]]
         /\ half_open_admitted' =
              Admitted(circuit_state, g2.circuit_state,
                       IF isProbe THEN 1 ELSE 0)
  /\ UNCHANGED <<telemetry, controller, now>>

\* The upstream answered attempt number sent with a status code.
Response(r, code) ==
  /\ req[r].pc = "upstream"
  /\ LET is_failure == code >= 500 /\ code < 600
         g1 == [Globals EXCEPT !.REQUEST_COUNT[req[r].method, code] = @ + 1]
         g2 == track(g1, is_failure)
         g3 == close_on_success(g2, is_failure)
         g4 == IF is_failure THEN maybe_open_circuit(g3, now) ELSE g3
         retry == is_failure /\ may_retry(req[r])
         g5 == IF retry
               THEN [g4 EXCEPT !.UPSTREAM_RETRIES[req[r].method] = @ + 1]
               ELSE g4
     IN  /\ SetGlobals(g5)
         /\ response' = IF retry THEN 0 ELSE code
         /\ req' = [req EXCEPT ![r] =
                      IF retry
                      THEN [@ EXCEPT !.attempts = @ + 1, !.sent = @ + 1,
                                     !.appended = @ + 1]
                      ELSE IdleReq]
         /\ half_open_admitted' = Admitted(circuit_state, g5.circuit_state, 0)
  /\ UNCHANGED <<telemetry, controller, now, arrivals>>

\* client.request raised httpx.TimeoutException.
Timeout(r) ==
  /\ req[r].pc = "upstream"
  /\ LET g1 == track(Globals, TRUE)
         g2 == maybe_open_circuit(g1, now)
         retry == may_retry(req[r])
         g3 == IF retry
               THEN [g2 EXCEPT !.UPSTREAM_RETRIES[req[r].method] = @ + 1]
               ELSE g2
     IN  /\ SetGlobals(g3)
         /\ response' = IF retry THEN 0 ELSE 504
         /\ req' = [req EXCEPT ![r] =
                      IF retry
                      THEN [@ EXCEPT !.attempts = @ + 1, !.sent = @ + 1,
                                     !.appended = @ + 1]
                      ELSE IdleReq]
         /\ half_open_admitted' = Admitted(circuit_state, g3.circuit_state, 0)
  /\ UNCHANGED <<telemetry, controller, now, arrivals>>

\* client.request raised an httpx error that is not a TimeoutException
\* (connection refused, protocol error): no except clause matches, the
\* exception leaves proxy and the framework answers 500.
TransportError(r) ==
  /\ req[r].pc = "upstream"
  /\ req' = [req EXCEPT ![r] = IdleReq]
  /\ inc' = NoInc
  /\ response' = 500
  /\ UNCHANGED <<telemetry, breaker, traffic, controller, now, history>>

\* predictive_skips without its two `continue` statements
predictive_skips_never == FALSE

\* predictive_skips without `if circuit_state != "CLOSED": continue`
predictive_skips_anystate ==
  now - last_predictive_action < PREDICTIVE_COOLDOWN

\* predictive_circuit_controller: the two `continue` guards of an iteration
predictive_skips ==
  \/ circuit_state # "CLOSED"
  \/ now - last_predictive_action < PREDICTIVE_COOLDOWN

\* One iteration of predictive_circuit_controller after its sleep.
PredictiveTick(features, out) ==
  /\ LET risk == predict_risk(features, out)
         threshold == compute_threshold(features)
         opens == ~predictive_skips /\ risk >= threshold
     IN  IF opens
         THEN /\ circuit_state' = "OPEN"
              /\ circuit_opened_at' = now
              /\ CIRCUIT_STATE' = 1
              /\ inc' = [NoInc EXCEPT !.CIRCUIT_OPEN_TOTAL = 1]
              /\ last_predictive_action' = now
              /\ previous_predictive_action' = last_predictive_action
         ELSE /\ inc' = NoInc
              /\ UNCHANGED <<circuit_state, circuit_opened_at, CIRCUIT_STATE,
                             controller>>
  /\ response' = 0
  /\ UNCHANGED <<telemetry, half_open_probe_in_flight, failure_window,
                 traffic, now, req, history>>

Next ==
  \/ Tick
  \/ \E r \in Req : PathFilter(r)
  \/ \E r \in Req, method \in Methods,
        features \in CurrentFeatures, out \in ModelOutputs :
          Arrive(r, method, features, out)
  \/ \E r \in Req, code \in UpstreamStatuses : Response(r, code)
  \/ \E r \in Req : Timeout(r)
  \/ \E r \in Req : TransportError(r)
  \/ \E features \in CurrentFeatures, out \in ModelOutputs :
          PredictiveTick(features, out)

Spec == Init /\ [][Next]_vars

\* ------------------------------------------------------ the feature logger
\* FeatureLogger._log_once, "Assign labels to old samples": the entries to
\* label, as rows (written_at is the time of the write).
labeled_rows(buf, t) ==
  LET cutoff == t - label_window
      old    == SelectSeq(buf, LAMBDA e : e.ts <= cutoff)
  IN  [i \in 1..Len(old) |->
         [ts |-> old[i].ts,
          failure_ratio |-> old[i].features.failure_ratio,
          label |-> IF old[i].features.failure_ratio >= failure_threshold
                    THEN 1 ELSE 0,
          written_at |-> t]]

\* remaining_entries without the filter `if ts > cutoff`
remaining_entries_all(buf, t) == buf

\* FeatureLogger._log_once, "Remove labeled samples from buffer"
remaining_entries(buf, t) ==
  LET cutoff == t - label_window
  IN  SelectSeq(buf, LAMBDA e : e.ts > cutoff)

\* One call of FeatureLogger._log_once with what compute_features returns.
LogOnce(features) ==
  /\ logger_pc = "log"
  /\ log_calls < MaxLogCalls
  /\ log_calls' = log_calls + 1
  /\ logger_pc' = "sleep"
  /\ IF DOMAIN features = {}
     THEN UNCHANGED <<_buffer, sink>>
     ELSE LET buf == Append(_buffer, [ts |-> now, features |-> features])
          IN  /\ _buffer' = remaining_entries(buf, now)
              /\ sink' = sink \o labeled_rows(buf, now)
  /\ UNCHANGED <<gateway, now, extractor, adaptive>>

\* FeatureLogger.start: `await asyncio.sleep(self.log_interval)` returns,
\* on time or late.
LogSleep(late) ==
  /\ logger_pc = "sleep"
  /\ logger_pc' = "log"
  /\ now' = now + log_interval + late
  /\ UNCHANGED <<gateway, _buffer, sink, log_calls, extractor, adaptive>>

LoggerNext ==
  \/ \E features \in {EmptyFeatures} \cup NonEmptyFeatures : LogOnce(features)
  \/ \E late \in {0, LateBy} : LogSleep(late)

LoggerSpec == Init /\ [][LoggerNext]_vars

\* --------------------------------------------------- the feature extractor
\* deque(maxlen=window_size).append
rolling_append(d, x) ==
  IF Len(d) >= window_size THEN Append(Tail(d), x) ELSE Append(d, x)

\* _delta without `max(0.0, ...)`
_delta_signed(last, name, current) ==
  LET prev == IF name \in DOMAIN last THEN last[name] ELSE current
  IN  current - prev

\* FeatureExtractor._delta: the value it returns (it also stores current in
\* _last[name])
_delta(last, name, current) ==
  LET prev  == IF name \in DOMAIN last THEN last[name] ELSE current
      delta == current - prev
  IN  IF delta > 0 THEN delta ELSE 0

\* FeatureExtractor.snapshot for the counters api_requests_total and
\* upstream_5xx_errors_total (the other three are sampled the same way);
\* a counter read may be lower than the previous one (process restart).
Snapshot(request_total, request_failures) ==
  /\ total' = rolling_append(total, _delta(_last, "total", request_total))
  /\ failures' =
       rolling_append(failures, _delta(_last, "failures", request_failures))
  /\ _last' = [n \in {"total", "failures"} |->
                 IF n = "total" THEN request_total ELSE request_failures]
  /\ previous_last' = _last
  /\ UNCHANGED <<gateway, now, logger, adaptive>>

ExtractorNext ==
  \E request_total \in 0..MaxCounter, request_failures \in 0..MaxCounter :
    Snapshot(request_total, request_failures)

ExtractorSpec == Init /\ [][ExtractorNext]_vars

\* ------------------------------------------- the adaptive threshold alone
\* Feature vectors on both sides of every test of compute_threshold (rates
\* in percent), and the empty vector.
ThresholdInputs ==
  {EmptyFeatures} \cup
  [retry_rate : {0, 30, 31, 50}, latency_slope : {-1, 0, 1},
   circuit_flap_rate : {0, 1, 3}, failure_ratio : {0, 1, 50}]

\* A call of AdaptiveThresholdController.compute_threshold.
ComputeThreshold(features) ==
  /\ threshold_features' = features
  /\ adaptive_threshold' = compute_threshold(features)
  /\ UNCHANGED <<gateway, now, logger, extractor>>

ThresholdNext == \E features \in ThresholdInputs : ComputeThreshold(features)

ThresholdSpec == Init /\ [][ThresholdNext]_vars

\* ================================================================ claims
\* Slot r takes a new request in this step, and the request is proxied (its
\* path is not reserved).
Proxied(r) ==
  Accepts(r) /\ arrivals' = arrivals + 1 /\ response' # 404

\* The request taken by slot r is answered with status at admission, without
\* an upstream attempt.
Answered(r, status) == response' = status /\ req'[r] = IdleReq

\* The request in slot r returns in this step.
Returns(r) == req[r].pc = "upstream" /\ req'[r].pc = "idle"

\* A failure is appended to failure_window in this step.
FailureAppended ==
  /\ inc'.CIRCUIT_REQUESTS_TRACKED = 1
  /\ failure_window' = deque_append(failure_window, TRUE)

\* The window holds at least CIRCUIT_MIN_REQUESTS entries, at least half of
\* them failures.
Tripping(w) ==
  /\ Len(w) >= CIRCUIT_MIN_REQUESTS
  /\ 2 * Cardinality({i \in 1..Len(w) : w[i]}) >= Len(w)

\* The requests admitted through the HALF_OPEN gate that have not returned.
OutstandingProbes == {r \in Req : InFlight(r) /\ req[r].probe}

\* C1 -- HALF_OPEN exclusivity: in one HALF_OPEN period at most one arriving
\* request passes the HALF_OPEN gate, whatever the interleaving; only a
\* request that passed it is sent upstream, and every arrival after it is
\* answered 503 without an upstream attempt.
C1_HalfOpenExclusivity ==
  [][ /\ half_open_admitted' <= 1
      /\ \A r \in Req :
           /\ ( /\ Proxied(r)
                /\ circuit_state = "HALF_OPEN"
                /\ half_open_admitted >= 1 )
              => Answered(r, 503)
           /\ ( /\ Proxied(r)
                /\ circuit_state' = "HALF_OPEN"
                /\ req'[r].sent > 0 )
              => /\ req'[r].probe
                 /\ half_open_admitted' = 1
                 /\ (circuit_state = "HALF_OPEN" => half_open_admitted = 0)
    ]_vars

\* C1 witness: a HALF_OPEN breaker whose probe is upstream while another
\* arrival of the same period has just been answered 503 by the HALF_OPEN
\* gate (the OPEN gate counts its 503 in api_requests_total, this one does
\* not).
C1_Witness ==
  /\ circuit_state = "HALF_OPEN"
  /\ half_open_admitted = 1
  /\ \E r \in Req : req[r].probe /\ req[r].pc = "upstream"
  /\ response = 503
  /\ \A m \in Methods : inc.REQUEST_COUNT[m, 503] = 0
  /\ inc.CIRCUIT_SHORT_CIRCUITED = 1

\* C2 -- a HALF_OPEN probe that fails terminally (final 5xx, or timeout with
\* no retry left) moves the breaker HALF_OPEN -> OPEN with opened_at = now,
\* probe_in_flight = false and circuit_open_total incremented.
C2_FailedProbeReopens ==
  [][ \A r \in Req :
        ( /\ circuit_state = "HALF_OPEN"
          /\ req[r].probe
          /\ Returns(r)
          /\ inc'.CIRCUIT_REQUESTS_TRACKED = 1
          /\ response' \in {500, 504} )
        => /\ circuit_state' = "OPEN"
           /\ circuit_opened_at' = now
           /\ half_open_probe_in_flight' = FALSE
           /\ inc'.CIRCUIT_OPEN_TOTAL = 1
    ]_vars

\* C3 -- breaker monotone accounting: a request that returns after an
\* upstream attempt has appended exactly one entry to the failure window over
\* its whole life, and a request answered at admission has appended none.
C3_OneAppendPerRequest ==
  [][ \A r \in Req :
        /\ Returns(r)
           => req[r].appended + inc'.CIRCUIT_REQUESTS_TRACKED = 1
        /\ (Accepts(r) /\ arrivals' = arrivals + 1 /\ req'[r] = IdleReq)
           => /\ inc'.CIRCUIT_REQUESTS_TRACKED = 0
              /\ failure_window' = failure_window
    ]_vars

\* C4 -- reactive trip rule: a failure appended while CLOSED that leaves the
\* window with at least CIRCUIT_MIN_REQUESTS entries and a failure ratio of
\* at least one half opens the breaker in the same step (opened_at = now,
\* probe_in_flight false, circuit_open_total + 1); and every step into OPEN
\* is such a step or a step of the predictive controller.
C4_ReactiveTrip ==
  [][ /\ ( /\ circuit_state = "CLOSED"
           /\ FailureAppended
           /\ Tripping(failure_window') )
         => /\ circuit_state' = "OPEN"
            /\ circuit_opened_at' = now
            /\ half_open_probe_in_flight' = FALSE
            /\ inc'.CIRCUIT_OPEN_TOTAL = 1
      /\ (circuit_state # "OPEN" /\ circuit_state' = "OPEN")
         => /\ circuit_state = "CLOSED"
            /\ circuit_opened_at' = now
            /\ inc'.CIRCUIT_OPEN_TOTAL = 1
            /\ \/ FailureAppended /\ Tripping(failure_window')
               \/ /\ last_predictive_action' = now
                  /\ inc'.CIRCUIT_REQUESTS_TRACKED = 0
                  /\ UNCHANGED <<req, failure_window>>
    ]_vars

\* C4 witness: the breaker has just been opened, at this instant, by the
\* reactive rule (a tracked failure, the predictive controller has never
\* acted), on a window that is exactly at the threshold.
C4_Witness ==
  /\ circuit_state = "OPEN"
  /\ inc.CIRCUIT_OPEN_TOTAL = 1
  /\ inc.CIRCUIT_REQUESTS_TRACKED = 1
  /\ last_predictive_action = 0
  /\ circuit_opened_at = now
  /\ Len(failure_window) >= CIRCUIT_MIN_REQUESTS
  /\ 2 * Failures(failure_window) = Len(failure_window)

\* C5 -- reactive admission: a proxied request arriving while OPEN before
\* CIRCUIT_OPEN_DURATION_SECONDS have passed is answered 503 with no upstream
\* attempt, counts one short-circuit and one api_requests_total{503}, and
\* leaves the breaker as it was; OPEN -> HALF_OPEN happens only on a request
\* arriving once the duration has passed.
C5_ReactiveAdmission ==
  [][ /\ \A r \in Req :
           ( /\ Proxied(r)
             /\ circuit_state = "OPEN"
             /\ now - circuit_opened_at < CIRCUIT_OPEN_DURATION_SECONDS )
           => /\ Answered(r, 503)
              /\ \E m \in Methods :
                   inc' = [NoInc EXCEPT !.CIRCUIT_SHORT_CIRCUITED = 1,
                                        !.REQUEST_COUNT[m, 503] = 1]
              /\ UNCHANGED breaker
      /\ (circuit_state = "OPEN" /\ circuit_state' = "HALF_OPEN")
         => /\ \E r \in Req : Proxied(r)
            /\ now - circuit_opened_at >= CIRCUIT_OPEN_DURATION_SECONDS
    ]_vars

\* C5 witness: an OPEN breaker that has just rejected a request with 503
\* while a request admitted before it opened is still upstream.
C5_Witness ==
  /\ circuit_state = "OPEN"
  /\ now - circuit_opened_at < CIRCUIT_OPEN_DURATION_SECONDS
  /\ response = 503
  /\ \E m \in Methods : inc.REQUEST_COUNT[m, 503] = 1
  /\ inc.CIRCUIT_SHORT_CIRCUITED = 1
  /\ \E r \in Req : req[r].pc = "upstream"

\* C6 -- probe_in_flight implies that the breaker is HALF_OPEN.
C6_ProbeOnlyInHalfOpen ==
  half_open_probe_in_flight => circuit_state = "HALF_OPEN"

\* C6 witness: the flag is set while a request admitted before the breaker
\* opened is still in flight next to the probe.
C6_Witness ==
  /\ half_open_probe_in_flight
  /\ \E r \in Req : req[r].pc = "upstream" /\ req[r].probe
  /\ \E r \in Req : req[r].pc = "upstream" /\ ~req[r].probe

\* C7 -- probe_in_flight is true exactly when one request admitted as the
\* HALF_OPEN probe has not yet returned.
C7_FlagIffProbeOutstanding ==
  half_open_probe_in_flight <=> Cardinality(OutstandingProbes) = 1

\* C8 -- the breaker goes HALF_OPEN -> CLOSED only in a step in which a
\* request admitted as the probe returns a non-5xx response.
C8_OnlyProbeCloses ==
  [][ (circuit_state = "HALF_OPEN" /\ circuit_state' = "CLOSED")
      => \E r \in Req :
           /\ req[r].probe
           /\ Returns(r)
           /\ response' = 200
    ]_vars

\* C9 -- right after any transition to CLOSED the failure window is empty,
\* probe_in_flight is false and opened_at is unset; and a request arriving
\* at a CLOSED breaker is sent upstream unless predictive admission answers
\* 429.
C9_ClosedIsFresh ==
  [][ /\ (circuit_state # "CLOSED" /\ circuit_state' = "CLOSED")
         => /\ failure_window' = <<>>
            /\ half_open_probe_in_flight' = FALSE
            /\ circuit_opened_at' = None
      /\ \A r \in Req :
           (Proxied(r) /\ circuit_state = "CLOSED")
           => \/ req'[r].pc = "upstream" /\ req'[r].sent = 1
              \/ Answered(r, 429)
    ]_vars

\* C9 witness: a breaker that the predictive controller had opened has just
\* been closed by a tracked 200 response: its window is empty although an
\* entry was appended in the step, and opened_at is unset.
C9_Witness ==
  /\ circuit_state = "CLOSED"
  /\ last_predictive_action > 0
  /\ response = 200
  /\ inc.CIRCUIT_REQUESTS_TRACKED = 1
  /\ failure_window = <<>>
  /\ circuit_opened_at = None
  /\ ~half_open_probe_in_flight

\* C10 -- whenever the breaker is OPEN, opened_at is set, so the elapsed-time
\* check of an arriving request never meets None.
C10_OpenHasTimestamp ==
  circuit_state = "OPEN"
  => /\ circuit_opened_at # None
     /\ \A m \in Methods :
          circuit_enforcement(Globals, now, m).status \in {0, 503}

\* C10 witness: the breaker is OPEN for the second time: the predictive
\* controller opened it earlier, a close reset opened_at to None, and the
\* reactive rule has just opened it again.
C10_Witness ==
  /\ circuit_state = "OPEN"
  /\ last_predictive_action > 0
  /\ circuit_opened_at > last_predictive_action
  /\ inc.CIRCUIT_OPEN_TOTAL = 1
  /\ circuit_opened_at = now

\* The predictive controller opens the breaker in this step: circuit_open_total
\* is incremented and nothing is appended to the failure window (the reactive
\* rule opens only right after an append).
PredictiveOpening ==
  inc'.CIRCUIT_OPEN_TOTAL = 1 /\ inc'.CIRCUIT_REQUESTS_TRACKED = 0

\* C11 -- predictive cooldown: last_predictive_action changes only when the
\* predictive controller opens the breaker and is then the time of the
\* opening, and an opening by the controller comes at least
\* PREDICTIVE_COOLDOWN seconds after its previous one.
C11_PredictiveCooldown ==
  [][ /\ (last_predictive_action' # last_predictive_action)
         => PredictiveOpening
      /\ PredictiveOpening
         => /\ last_predictive_action' = now
            /\ ( last_predictive_action > 0
                 => now - last_predictive_action >= PREDICTIVE_COOLDOWN )
    ]_vars

\* C11 witness: the controller has just opened the breaker for the second
\* time, a cooldown or more after the first.
C11_Witness ==
  /\ circuit_state = "OPEN"
  /\ inc.CIRCUIT_OPEN_TOTAL = 1
  /\ last_predictive_action = now
  /\ previous_predictive_action > 0
  /\ now - previous_predictive_action >= PREDICTIVE_COOLDOWN

\* C12 -- a tick of the predictive controller moves the breaker to OPEN only
\* from CLOSED and only with risk >= the adaptive threshold; it then sets
\* opened_at, increments circuit_open_total and records
\* last_predictive_action; a tick on a breaker that is not CLOSED changes
\* nothing; and a proxied request arriving at the breaker it opened before
\* the open duration has passed is answered 503.
C12_PredictiveOpen ==
  [][ /\ PredictiveOpening
         => /\ circuit_state = "CLOSED"
            /\ circuit_state' = "OPEN"
            /\ circuit_opened_at' = now
            /\ last_predictive_action' = now
            /\ \E features \in CurrentFeatures, out \in ModelOutputs :
                  /\ PredictiveTick(features, out)
                  /\ predict_risk(features, out) >= compute_threshold(features)
      /\ (arrivals' = arrivals /\ req' = req /\ now' = now)
         => /\ (circuit_state = "CLOSED" /\ circuit_state' # "CLOSED")
               => \A features \in CurrentFeatures, out \in ModelOutputs :
                    PredictiveTick(features, out)
                    => predict_risk(features, out)
                         >= compute_threshold(features)
            /\ ( /\ circuit_state # "CLOSED"
                 /\ \E features \in CurrentFeatures, out \in ModelOutputs :
                      PredictiveTick(features, out) )
               => /\ UNCHANGED <<breaker, controller>>
                  /\ inc' = NoInc
      /\ \A r \in Req :
           ( /\ Proxied(r)
             /\ circuit_state = "OPEN"
             /\ circuit_opened_at = last_predictive_action
             /\ now - circuit_opened_at < CIRCUIT_OPEN_DURATION_SECONDS )
           => Answered(r, 503)
    ]_vars

\* C12 witness: the breaker is OPEN since the controller opened it, and a
\* request that arrived since then has just been answered 503.
C12_Witness ==
  /\ circuit_state = "OPEN"
  /\ last_predictive_action > 0
  /\ circuit_opened_at = last_predictive_action
  /\ response = 503
  /\ inc.CIRCUIT_SHORT_CIRCUITED = 1
  /\ \E m \in Methods : inc.REQUEST_COUNT[m, 503] = 1

\* C13 -- retry discipline: upstream_retries_total is never incremented for
\* a non-idempotent method, and a forwarded request with such a method is on
\* its first and only upstream attempt: whatever comes back (non-5xx, 5xx,
\* timeout), in NORMAL as in DEGRADED mode, the next step of the request
\* returns.
C13_NonIdempotentNeverRetried ==
  [][ \A r \in Req :
        (InFlight(r) /\ req[r].method \notin IDEMPOTENT_METHODS)
        => /\ req[r].sent = 1
           /\ req[r].attempts = 0
           /\ inc'.UPSTREAM_RETRIES[req[r].method] = 0
           /\ req'[r] # req[r] => Returns(r)
    ]_vars

\* C13 witness: the first request of the run, a POST forwarded in NORMAL mode
\* (no features yet, so risk 0 and a retry budget of 2), has just been
\* answered 500 by the upstream, and the 500 was returned without a retry.
C13_Witness ==
  /\ response = 500
  /\ inc.REQUEST_COUNT["POST", 500] = 1
  /\ inc.CIRCUIT_REQUESTS_TRACKED = 1
  /\ \A m \in Methods : inc.UPSTREAM_RETRIES[m] = 0
  /\ \A r \in Req : Free(r)
  /\ arrivals = 1

\* C14 -- retry budget per mode: a request is forwarded with max_retries = 2
\* in NORMAL mode and 0 in DEGRADED mode and keeps that budget; it makes at
\* most max_retries + 1 upstream attempts, every retry being recorded in
\* upstream_retries_total; and a GET that returns because its last attempt
\* failed has recorded exactly max_retries retries and returns 5xx or 504.
C14_RetryBudget ==
  [][ \A r \in Req :
        /\ \A method \in Methods, features \in CurrentFeatures,
              out \in ModelOutputs :
             (Arrive(r, method, features, out) /\ InFlight(r)')
             => req'[r].max_retries =
                  IF request_mode_from_risk(predict_risk(features, out))
                       = "DEGRADED"
                  THEN 0 ELSE 2
        /\ InFlight(r)
           => /\ req[r].sent <= req[r].max_retries + 1
              /\ req[r].sent = req[r].attempts + 1
        /\ (InFlight(r) /\ InFlight(r)' /\ req'[r] # req[r])
           => /\ req'[r].max_retries = req[r].max_retries
              /\ req'[r].attempts = req[r].attempts + 1
              /\ inc'.UPSTREAM_RETRIES[req[r].method] = 1
        /\ ( /\ Returns(r)
             /\ req[r].method \in IDEMPOTENT_METHODS
             /\ response' # 200 )
           => /\ response' \in {500, 504}
              /\ req[r].attempts = req[r].max_retries
    ]_vars

\* C15 -- hard fail: a request that passes reactive admission with
\* risk >= HARD_RISK_THRESHOLD is answered 429 with no upstream attempt,
\* increments circuit_short_circuited_total once and appends nothing to the
\* failure window; and 429 is answered to no other request.
C15_HardFail ==
  [][ (arrivals' = arrivals + 1)
      => \A method \in Methods :
           /\ (circuit_enforcement(Globals, now, method).status = 0)
              => \A features \in CurrentFeatures, out \in ModelOutputs :
                   (predict_risk(features, out) >= HARD_RISK_THRESHOLD)
                   => \A r \in Req :
                        Arrive(r, method, features, out)
                        => /\ Answered(r, 429)
                           /\ req' = req
                           /\ inc'.CIRCUIT_SHORT_CIRCUITED = 1
                           /\ inc'.CIRCUIT_REQUESTS_TRACKED = 0
                           /\ failure_window' = failure_window
           /\ (response' = 429)
              => \A features \in CurrentFeatures, out \in ModelOutputs :
                   (predict_risk(features, out) < HARD_RISK_THRESHOLD)
                   => \A r \in Req : ~Arrive(r, method, features, out)
    ]_vars

\* C15 witness: a request has just been answered 429 and counted as a
\* short-circuit while the breaker is CLOSED with a failure in its window
\* and another request upstream.
C15_Witness ==
  /\ response = 429
  /\ inc.CIRCUIT_SHORT_CIRCUITED = 1
  /\ inc.CIRCUIT_REQUESTS_TRACKED = 0
  /\ circuit_state = "CLOSED"
  /\ Failures(failure_window) >= 1
  /\ \E r \in Req : req[r].pc = "upstream"

\* C16 -- a transport error on an attempt is handled as a timeout: every
\* outcome of an upstream attempt is tracked in the failure window (one
\* append), and a request returns either an upstream response, counted in
\* api_requests_total, or the gateway's own 504; no outcome leaves the
\* attempt loop unhandled.
C16_TransportErrorAsTimeout ==
  [][ \A r \in Req :
        (InFlight(r) /\ req'[r] # req[r])
        => /\ inc'.CIRCUIT_REQUESTS_TRACKED = 1
           /\ Returns(r)
              => \/ response' = 504
                 \/ /\ response' \in UpstreamStatuses
                    /\ inc'.REQUEST_COUNT[req[r].method, response'] = 1
    ]_vars

\* C17 -- per-request ordering: every outcome that appends to the failure
\* window is followed, within the same handler step and before a retry, by
\* one observation of circuit_failure_ratio.
C17_RatioObserved ==
  [][ inc'.CIRCUIT_REQUESTS_TRACKED = 1 => inc'.CIRCUIT_FAILURE_RATIO = 1 ]_vars

\* C18 -- label correctness and append-once: every row of the sink was
\* written at least label_window seconds after its entry was sampled, no
\* entry has two rows, and no entry that has a row is still in the buffer.
C18_LabeledOnceAfterWindow ==
  /\ \A i \in 1..Len(sink) : sink[i].written_at - sink[i].ts >= label_window
  /\ \A i, j \in 1..Len(sink) : sink[i].ts = sink[j].ts => i = j
  /\ \A i \in 1..Len(_buffer), j \in 1..Len(sink) :
       _buffer[i].ts # sink[j].ts

\* C18 witness: the sink holds rows of both labels, one of them written
\* exactly label_window seconds after its entry was sampled, while younger
\* entries wait in the buffer.
C18_Witness ==
  /\ \E i \in 1..Len(sink) :
       sink[i].label = 1 /\ sink[i].written_at - sink[i].ts = label_window
  /\ \E i \in 1..Len(sink) : sink[i].label = 0
  /\ Len(_buffer) >= 1

\* The delta the sampler has to record for counter `name` at the last
\* snapshot: 0 on the first tick and after a drop, the increase otherwise.
ExpectedDelta(name) ==
  IF name \notin DOMAIN previous_last THEN 0
  ELSE IF _last[name] < previous_last[name] THEN 0
  ELSE _last[name] - previous_last[name]

\* C19 -- counter monotonicity of the sampler: every delta in a rolling
\* buffer is >= 0, and the delta appended by the last snapshot is 0 on the
\* first tick and after a drop of the counter, the increase otherwise.
C19_DeltaNonNegative ==
  /\ \A i \in 1..Len(total) : total[i] >= 0
  /\ \A i \in 1..Len(failures) : failures[i] >= 0
  /\ Len(total) > 0 => total[Len(total)] = ExpectedDelta("total")
  /\ Len(failures) > 0 => failures[Len(failures)] = ExpectedDelta("failures")

\* C19 witness: api_requests_total has dropped between the last two
\* snapshots and the drop was recorded as 0, after a positive delta.
C19_Witness ==
  /\ "total" \in DOMAIN previous_last
  /\ _last["total"] < previous_last["total"]
  /\ Len(total) >= 2
  /\ total[Len(total)] = 0
  /\ total[Len(total) - 1] > 0

\* base_threshold adjusted by -0.10, -0.10, -0.15 and +0.10 for the four
\* conditions, before clamping.
AdjustedThreshold(f) ==
  70 - (IF f.retry_rate > 30 THEN 10 ELSE 0)
     - (IF f.latency_slope > 0 THEN 10 ELSE 0)
     - (IF f.circuit_flap_rate > 0 THEN 15 ELSE 0)
     + (IF f.failure_ratio = 0 /\ f.latency_slope <= 0 THEN 10 ELSE 0)

\* C20 -- threshold bounds: compute_threshold returns a value in [0.4, 0.9]:
\* 0.7 for the empty vector, and otherwise 0.7 adjusted by -0.10 for
\* retry_rate > 0.3, -0.10 for latency_slope > 0, -0.15 for
\* circuit_flap_rate > 0, +0.10 for failure_ratio == 0 with
\* latency_slope <= 0, then clamped to [0.4, 0.9].
C20_ThresholdBounds ==
  adaptive_threshold # None
  => /\ adaptive_threshold >= 40
     /\ adaptive_threshold <= 90
     /\ adaptive_threshold =
          IF threshold_features = EmptyFeatures THEN 70
          ELSE IF AdjustedThreshold(threshold_features) < 40 THEN 40
          ELSE IF AdjustedThreshold(threshold_features) > 90 THEN 90
          ELSE AdjustedThreshold(threshold_features)

\* C20 witness: the three lowering conditions hold together, the adjusted
\* value 0.35 is below the range and the call returned 0.4.
C20_Witness ==
  /\ adaptive_threshold = 40
  /\ threshold_features # EmptyFeatures
  /\ AdjustedThreshold(threshold_features) = 35

\* C21 -- a request answered 429 by predictive admission leaves the circuit
\* aggregate as it was (but for the OPEN -> HALF_OPEN move its arrival may
\* cause): the failure window, opened_at and probe_in_flight are unchanged,
\* so on a HALF_OPEN breaker with no probe in flight probe_in_flight is still
\* false after the 429.
C21_HardFailLeavesBreaker ==
  [][ (arrivals' = arrivals + 1 /\ response' = 429)
      => /\ half_open_probe_in_flight' = half_open_probe_in_flight
         /\ failure_window' = failure_window
         /\ circuit_opened_at' = circuit_opened_at
         /\ circuit_state' \in {circuit_state, "HALF_OPEN"}
    ]_vars

\* Code of a breaker state on the circuit_state gauge.
StateCode(state) ==
  IF state = "CLOSED" THEN 0 ELSE IF state = "OPEN" THEN 1 ELSE 2

\* C22 -- the circuit_state gauge is the code of the breaker state in every
\* reachable state, and circuit_open_total counts the transitions into OPEN:
\* a step increments it once if it takes the breaker into OPEN (by the
\* reactive rule or by the predictive controller) and not at all otherwise.
C22_GaugeAndOpenTotal ==
  /\ [](CIRCUIT_STATE = StateCode(circuit_state))
  /\ [][ inc'.CIRCUIT_OPEN_TOTAL =
           IF circuit_state # "OPEN" /\ circuit_state' = "OPEN"
           THEN 1 ELSE 0 ]_vars

\* C22 witness: the reactive rule opened the breaker (the controller has
\* never acted), a request arriving after the open duration took it to
\* HALF_OPEN, and the gauge reads 2.
C22_Witness ==
  /\ circuit_state = "HALF_OPEN"
  /\ CIRCUIT_STATE = 2
  /\ last_predictive_action = 0
  /\ circuit_opened_at # None
  /\ inc.CIRCUIT_OPEN_TOTAL = 0
  /\ half_open_admitted = 1

====
